---------------------------- MODULE Spec2Model ----------------------------
(***************************************************************************)
(* A model of streamlit_app.py, the "Open papers with Code" dashboard.     *)
(*                                                                         *)
(* The script is re-executed from top to bottom on every user              *)
(* interaction.  Its sections are modelled by the operators below, in the  *)
(* order of the source:                                                    *)
(*   list_parquet_files / load_data   (lines 40-129, cached for CACHE_TTL) *)
(*   filter_data                      (lines 151-189)                      *)
(*   Load Data, Sidebar, Filter Data  (lines 816-891)                      *)
(*   Pagination, Pagination Controls  (lines 894-1025)                     *)
(*                                                                         *)
(* Strings that are searched are sequences of one-character strings, so    *)
(* that lower(), split() and substring search are computed, not assumed.   *)
(* A data frame is [columns |-> set of names, rows |-> sequence of rows],  *)
(* a row being a function from the column names to cells.                  *)
(***************************************************************************)
EXTENDS Integers, Sequences, FiniteSets, TLC

VARIABLES
    bucket,     \* the storage listing: a sequence of files
    outage,     \* the storage operations that fail at present
    now,        \* wall clock, in seconds
    cache,      \* st.cache_data entry of load_data()
    io,         \* [at, ops]: when the last script run was, and the storage
                \* operations it performed
    df,         \* the data frame the last script run got from load_data()
    pc,         \* how far the last script run got
    widgets,    \* the values the sidebar widgets hold
    args,       \* (search, language, sort_by, date_range) of the last call
                \* of filter_data
    filtered,   \* result of filter_data in the last run
    quicksort,  \* how the platform's quicksort orders equal keys
    session,    \* st.session_state; page = 0 stands for "page" not in it,
                \* theme = "none" for "theme" not in it
    page_input, \* the value the page widget holds, 0 when it is not drawn
    view        \* what the last run rendered

vars == <<bucket, outage, now, cache, io, df, pc, widgets, args, filtered, quicksort,
          session, page_input, view>>

---------------------------------------------------------------------------
(* Program constants *)

\* line 26
CACHE_TTL == 3600

\* line 895
page_size == 48

\* pandas' NaT / missing timestamp, produced by errors="coerce" (line 83);
\* every valid instant of the model is >= 0
NaT == -1

---------------------------------------------------------------------------
(* Python / pandas primitives used by the script *)

Range(s) == {s[i] : i \in DOMAIN s}

\* a sequence given as a function, written out as a tuple
Tuple(f) == f \o <<>>

Reverse(s) == Tuple([i \in 1..Len(s) |-> s[Len(s) + 1 - i]])

Max2(a, b) == IF a >= b THEN a ELSE b

Min2(a, b) == IF a <= b THEN a ELSE b

\* the characters of the model's strings; "A" and "B" are the upper-case
\* forms of "a" and "b", " " is whitespace
LowerChar(c) == IF c = "A" THEN "a" ELSE IF c = "B" THEN "b" ELSE c

\* str.lower()
lower(s) == Tuple([i \in 1..Len(s) |-> LowerChar(s[i])])

RECURSIVE SplitAcc(_, _, _, _)
SplitAcc(s, i, cur, out) ==
    IF i > Len(s)
    THEN IF cur = <<>> THEN out ELSE Append(out, cur)
    ELSE IF s[i] = " "
         THEN SplitAcc(s, i + 1, <<>>, IF cur = <<>> THEN out ELSE Append(out, cur))
         ELSE SplitAcc(s, i + 1, Append(cur, s[i]), out)

\* str.split() with no separator: split on runs of whitespace, no empty words
split(s) == SplitAcc(s, 1, <<>>, <<>>)

\* Series.str.contains(word, regex=False): literal substring
contains(hay, word) ==
    \E i \in 0..(Len(hay) - Len(word)) : SubSeq(hay, i + 1, i + Len(word)) = word

RECURSIVE JoinFrom(_, _, _)
JoinFrom(xs, sep, i) ==
    IF i > Len(xs) THEN <<>>
    ELSE IF i = Len(xs) THEN xs[i]
    ELSE xs[i] \o sep \o JoinFrom(xs, sep, i + 1)

\* sep.join(xs)
Join(xs, sep) == JoinFrom(xs, sep, 1)

---------------------------------------------------------------------------
(* Raw cells of a snapshot, as read from the parquet file *)

NoneText == [k |-> "none", v |-> <<>>]
Str(s) == [k |-> "str", v |-> <<s>>]
List(xs) == [k |-> "list", v |-> xs]

NoneLang == [k |-> "none", s |-> ""]
Lang(s) == [k |-> "str", s |-> s]

NoneNum == [k |-> "none", n |-> 0]
BadNum == [k |-> "bad", n |-> 0]
Num(n) == [k |-> "num", n |-> n]
\* a value that to_numeric parses to a float infinity ("inf", 1e999)
InfNum == [k |-> "inf", n |-> 0]

NoneTime == [k |-> "none", n |-> 0]
BadTime == [k |-> "bad", n |-> 0]
Time(t) == [k |-> "ts", n |-> t]

DateCols == {"created", "updated", "repo_updated_at", "repo_created_at"}

NumCols == {"stars_total", "stars", "stars_last_7d", "stars_last_30d",
            "forks", "watchers", "open_issues"}

SearchCols == <<"title", "abstract", "keywords", "authors",
                "repo_description", "categories_full">>

AllCols == {"id", "language"} \cup DateCols \cup NumCols \cup Range(SearchCols)

---------------------------------------------------------------------------
(* list_parquet_files and load_data, lines 40-129 *)

\* A file of the bucket is
\*   [name, parquet (the name ends with ".parquet"), has_updated, updated,
\*    timeCreated (0 where the metadata holds none), content (the table)]

\* lines 52-53: info.get('updated', info.get('timeCreated'))
file_updated(f) == IF f.has_updated THEN f.updated ELSE f.timeCreated

\* lines 47-60: the parquet files that have an update time, in listing order
list_parquet_files(files) ==
    LET keep(f) == f.parquet /\ file_updated(f) # 0
    IN  SelectSeq(files, keep)

\* line 73: max(parquet_files, key=lambda x: x[1]), the first maximal entry
latest(parquet_files) ==
    LET best == CHOOSE i \in 1..Len(parquet_files) :
                    /\ \A j \in 1..Len(parquet_files) :
                           file_updated(parquet_files[j]) <= file_updated(parquet_files[i])
                    /\ \A j \in 1..(i - 1) :
                           file_updated(parquet_files[j]) < file_updated(parquet_files[i])
    IN  parquet_files[best]

\* line 83: pd.to_datetime(errors="coerce", utc=True).dt.tz_localize(None)
to_datetime(cell) == IF cell.k = "ts" THEN cell.n ELSE NaT

\* line 88: pd.to_numeric(errors="coerce").fillna(0).astype(int)
to_int(cell) == IF cell.k = "num" THEN cell.n ELSE 0

\* lines 91-98, on a row whose numeric columns are already integers
effective_stars(cols, row) ==
    IF "stars" \in cols /\ "stars_total" \in cols
    THEN IF row["stars"] > 0 THEN row["stars"] ELSE row["stars_total"]
    ELSE IF "stars" \in cols THEN row["stars"]
    ELSE IF "stars_total" \in cols THEN row["stars_total"]
    ELSE 0

\* lines 101-112
safe_join(x) ==
    IF x.k = "none" THEN <<>>
    ELSE IF x.k = "list" THEN Join(x.v, <<" ">>)
    ELSE x.v[1]

\* lines 114-118
get_col_as_str(cols, row, col_name) ==
    IF col_name \notin cols THEN <<>> ELSE lower(safe_join(row[col_name]))

\* lines 120-127
search_blob(cols, row) ==
    Join(Tuple([i \in 1..Len(SearchCols) |->
                   get_col_as_str(cols, row, SearchCols[i])]), <<" ">>)

\* lines 80-127 for one row
normalize_row(cols, raw) ==
    LET typed == [c \in cols |->
                    IF c \in DateCols THEN to_datetime(raw[c])
                    ELSE IF c \in NumCols THEN to_int(raw[c])
                    ELSE raw[c]]
    IN  [c \in cols \cup {"_effective_stars", "_search"} |->
            IF c = "_effective_stars" THEN effective_stars(cols, typed)
            ELSE IF c = "_search" THEN search_blob(cols, raw)
            ELSE typed[c]]

\* pd.DataFrame()
EmptyFrame == [columns |-> {}, rows |-> <<>>]

\* line 819 without the test of df.empty
empty_never(frame) == FALSE

\* DataFrame.empty
empty(frame) == frame.columns = {} \/ frame.rows = <<>>

\* lines 80-129
normalize(table) ==
    [columns |-> table.columns \cup {"_effective_stars", "_search"},
     rows |-> Tuple([i \in 1..Len(table.rows) |->
                        normalize_row(table.columns, table.rows[i])])]

\* lines 64-129, the body behind the cache: (df, parquet_filename)
load_data(files) ==
    LET parquet_files == list_parquet_files(files)
    IN  IF parquet_files = <<>>
        THEN [df |-> EmptyFrame, parquet_filename |-> "None"]
        ELSE [df |-> normalize(latest(parquet_files).content),
              parquet_filename |-> latest(parquet_files).name]

\* line 88: astype(int) raises on a column that holds an infinity, which
\* fillna(0) leaves in place
astype_raises(table) ==
    \E i \in 1..Len(table.rows) :
        \E c \in NumCols \cap table.columns : table.rows[i][c].k = "inf"

\* no storage operation fails
NoOutage == [ls |-> FALSE, info |-> {}, read |-> FALSE]

\* lines 49-58: the files whose fs.info (line 51) returns; one that raises
\* inside the try is passed over by "except Exception: pass"
info_returned(files, failing) ==
    LET returns(f) == ~(f.parquet /\ f.name \in failing.info)
    IN  SelectSeq(files, returns)

\* lines 64-129 against a storage of which the operations in failing raise:
\* fs.ls (line 45) and conn.read (line 78) are outside any try, and so is
\* the conversion of line 88
load_data_outcome(files, failing) ==
    IF failing.ls
    THEN [raised |-> TRUE, value |-> [df |-> EmptyFrame, parquet_filename |-> "None"]]
    ELSE IF list_parquet_files(info_returned(files, failing)) # <<>> /\ failing.read
    THEN [raised |-> TRUE, value |-> [df |-> EmptyFrame, parquet_filename |-> "None"]]
    ELSE IF /\ list_parquet_files(info_returned(files, failing)) # <<>>
            /\ astype_raises(latest(list_parquet_files(info_returned(files, failing))).content)
    THEN [raised |-> TRUE, value |-> [df |-> EmptyFrame, parquet_filename |-> "None"]]
    ELSE [raised |-> FALSE, value |-> load_data(info_returned(files, failing))]

---------------------------------------------------------------------------
(* filter_data, lines 151-189 *)

\* instants per calendar day: the resolution of the model's timestamps
DayLen == 2

\* Series.dt.date (line 168): the calendar date of an instant, NaT for NaT
dt_date(t) == IF t = NaT THEN NaT ELSE t \div DayLen

\* line 157: df["language"].fillna("") == language
language_mask(row, language) ==
    (IF row["language"].k = "none" THEN "" ELSE row["language"].s) = language

\* line 161 without lower(): a search that forgets to fold case
search_words_case_sensitive(search) == split(search)

\* line 161: search.lower().split()
search_words(search) == split(lower(search))

\* lines 162-163: every word is contained in _search
search_mask(row, words) ==
    \A i \in 1..Len(words) : contains(row["_search"], words[i])

\* line 169 with an exclusive upper bound
date_mask_exclusive_end(row, start, end) ==
    LET created == dt_date(row["created"])
    IN  created # NaT /\ created >= start /\ created < end

\* lines 168-169: (created >= start) & (created <= end); a comparison with
\* NaT is False
date_mask(row, start, end) ==
    LET created == dt_date(row["created"])
    IN  created # NaT /\ created >= start /\ created <= end

\* lines 153-171: the rows df.loc[mask] keeps, in the order of df
select(frame, search, language, date_range) ==
    LET words == IF search # <<>> THEN search_words(search) ELSE <<>>
        mask(row) ==
            /\ (language # "All" /\ "language" \in frame.columns)
                   => language_mask(row, language)
            /\ search_mask(row, words)
            /\ (date_range # <<>> /\ "created" \in frame.columns)
                   => date_mask(row, date_range[1], date_range[2])
    IN  SelectSeq(frame.rows, mask)

\* the default of line 185
sort_default == <<"_effective_stars", FALSE>>

\* lines 174-184 with "Oldest First" and "Newest First" swapped
sort_map_swapped ==
    [s \in {"Stars (Total)", "Stars (7 days)", "Stars (30 days)", "Newest First",
            "Oldest First", "Forks", "Watchers", "Repo Updated (Recent)",
            "Repo Updated (Oldest)"} |->
        CASE s = "Stars (Total)" -> <<"_effective_stars", FALSE>>
          [] s = "Stars (7 days)" -> <<"stars_last_7d", FALSE>>
          [] s = "Stars (30 days)" -> <<"stars_last_30d", FALSE>>
          [] s = "Newest First" -> <<"created", TRUE>>
          [] s = "Oldest First" -> <<"created", FALSE>>
          [] s = "Forks" -> <<"forks", FALSE>>
          [] s = "Watchers" -> <<"watchers", FALSE>>
          [] s = "Repo Updated (Recent)" -> <<"repo_updated_at", FALSE>>
          [] s = "Repo Updated (Oldest)" -> <<"repo_updated_at", TRUE>>]

\* lines 174-184: name -> (column, ascending)
sort_map ==
    [s \in {"Stars (Total)", "Stars (7 days)", "Stars (30 days)", "Newest First",
            "Oldest First", "Forks", "Watchers", "Repo Updated (Recent)",
            "Repo Updated (Oldest)"} |->
        CASE s = "Stars (Total)" -> <<"_effective_stars", FALSE>>
          [] s = "Stars (7 days)" -> <<"stars_last_7d", FALSE>>
          [] s = "Stars (30 days)" -> <<"stars_last_30d", FALSE>>
          [] s = "Newest First" -> <<"created", FALSE>>
          [] s = "Oldest First" -> <<"created", TRUE>>
          [] s = "Forks" -> <<"forks", FALSE>>
          [] s = "Watchers" -> <<"watchers", FALSE>>
          [] s = "Repo Updated (Recent)" -> <<"repo_updated_at", FALSE>>
          [] s = "Repo Updated (Oldest)" -> <<"repo_updated_at", TRUE>>]

\* line 185: sort_map.get(sort_by, ("_effective_stars", False))
sort_map_get(sort_by) ==
    IF sort_by \in DOMAIN sort_map THEN sort_map[sort_by] ELSE sort_default

\* numpy argsort(kind="quicksort"), the default kind of sort_values: the
\* positions of values in ascending order.  Quicksort is not a stable sort:
\* where it leaves equal keys is up to the platform's implementation, which
\* the variable quicksort records ("keeps_ties": in input order,
\* "swaps_ties": in reverse input order).
argsort(values) ==
    LET n == Len(values)
        before(j, i) ==
            \/ values[j] < values[i]
            \/ values[j] = values[i]
                  /\ IF quicksort = "keeps_ties" THEN j < i ELSE j > i
        rank == Tuple([i \in 1..n |-> Cardinality({j \in 1..n : before(j, i)})])
    IN  Tuple([k \in 1..n |-> CHOOSE i \in 1..n : rank[i] = k - 1])

\* isna() of a sort key: only a timestamp column holds missing values
isna(col, value) == col \in DateCols /\ value = NaT

\* pandas nargsort with na_position="first"
nargsort_na_first(items, col, ascending) ==
    LET n == Len(items)
        idx == Tuple([i \in 1..n |-> i])
        notna(i) == ~isna(col, items[i])
        na(i) == isna(col, items[i])
        non_nan_idx == IF ascending THEN SelectSeq(idx, notna)
                       ELSE Reverse(SelectSeq(idx, notna))
        non_nans == Tuple([i \in 1..Len(non_nan_idx) |-> items[non_nan_idx[i]]])
        order == argsort(non_nans)
        indexer == Tuple([i \in 1..Len(order) |-> non_nan_idx[order[i]]])
    IN  SelectSeq(idx, na) \o (IF ascending THEN indexer ELSE Reverse(indexer))

\* pandas nargsort(items, kind="quicksort", ascending, na_position="last"),
\* which line 187 runs on the sort column: the non-missing keys are sorted
\* ascending (a descending sort reverses them before and after), the
\* missing ones follow in their original order
nargsort(items, col, ascending) ==
    LET n == Len(items)
        idx == Tuple([i \in 1..n |-> i])
        notna(i) == ~isna(col, items[i])
        na(i) == isna(col, items[i])
        non_nan_idx == IF ascending THEN SelectSeq(idx, notna)
                       ELSE Reverse(SelectSeq(idx, notna))
        non_nans == Tuple([i \in 1..Len(non_nan_idx) |-> items[non_nan_idx[i]]])
        order == argsort(non_nans)
        indexer == Tuple([i \in 1..Len(order) |-> non_nan_idx[order[i]]])
    IN  (IF ascending THEN indexer ELSE Reverse(indexer)) \o SelectSeq(idx, na)

\* lines 186-187: filtered.sort_values(col, ascending=asc, na_position="last")
sort_values(columns, rows, col, asc) ==
    IF col \in columns
    THEN LET indexer == nargsort(Tuple([i \in 1..Len(rows) |-> rows[i][col]]), col, asc)
         IN  Tuple([i \in 1..Len(rows) |-> rows[indexer[i]]])
    ELSE rows

\* lines 151-189; reset_index(drop=True) renumbers the rows, which a
\* sequence does by itself
filter_data(frame, search, language, sort_by, date_range) ==
    [columns |-> frame.columns,
     rows |-> sort_values(frame.columns,
                          select(frame, search, language, date_range),
                          sort_map_get(sort_by)[1], sort_map_get(sort_by)[2])]

---------------------------------------------------------------------------
(* Sidebar, lines 857-881: the values the widgets can hand to filter_data *)

\* the last calendar day of the model; pd.Timestamp.today() (line 870)
MaxDay == 2

\* line 857: ["All"] + sorted(df["language"].dropna().unique())
languages(frame) ==
    IF "language" \in frame.columns
    THEN {"All"} \cup {frame.rows[i]["language"].s :
                          i \in {j \in 1..Len(frame.rows) :
                                    frame.rows[j]["language"].k # "none"}}
    ELSE {"All"}

\* line 863: the options of the sort selectbox
sort_options == {"Stars (Total)", "Newest First", "Oldest First", "Forks",
                 "Watchers", "Repo Updated (Recent)", "Repo Updated (Oldest)"}

\* the calendar dates of the created column, the missing ones left out
created_dates(frame) ==
    IF "created" \in frame.columns
    THEN {dt_date(frame.rows[i]["created"]) : i \in 1..Len(frame.rows)} \ {NaT}
    ELSE {}

\* line 869: df["created"].min().date()
date_min(frame) ==
    CHOOSE d \in created_dates(frame) : \A e \in created_dates(frame) : d <= e

\* lines 868-881: a (start, end) pair between the oldest created date and
\* today, or None (<<>>) while the user has picked one date only, or when
\* no row has a created date
date_ranges(frame) ==
    IF created_dates(frame) # {}
    THEN {<<>>} \cup UNION {{<<a, b>> : b \in a..MaxDay} : a \in date_min(frame)..MaxDay}
    ELSE {<<>>}

---------------------------------------------------------------------------
(* Snapshots the bucket can hold *)

\* rows per snapshot
MaxRows == 2

BaseRow ==
    [c \in AllCols |->
        IF c = "id" THEN 0
        ELSE IF c = "language" THEN NoneLang
        ELSE IF c \in DateCols THEN NoneTime
        ELSE IF c \in NumCols THEN NoneNum
        ELSE NoneText]

SeqsUpTo(S, n) == UNION {[1..k -> S] : k \in 0..n}

\* the table with the given columns and rows; the id column numbers the rows
Table(cols, rows) ==
    [columns |-> cols,
     rows |-> [i \in 1..Len(rows) |->
                 [c \in cols |-> IF c = "id" THEN i ELSE rows[i][c]]]]

Tables(cols, Rows) == {Table(cols, rows) : rows \in SeqsUpTo(Rows, MaxRows)}

ParquetFile(table) ==
    [name |-> "2024010100.parquet", parquet |-> TRUE, has_updated |-> TRUE,
     updated |-> 1, timeCreated |-> 1, content |-> table]

NoArgs == [search |-> <<>>, language |-> "All", sort_by |-> "Stars (Total)",
           date_range |-> <<>>]

\* the sidebar widgets before the user touches them; date_input <<>> stands
\* for the default value of line 874; theme_toggle is the value= the toggle
\* was drawn with and the position it is in
NoWidgets == [theme_toggle |-> [value |-> TRUE, on |-> TRUE],
              search |-> <<>>, language |-> "All", sort_by |-> "Stars (Total)",
              date_input |-> <<>>]

\* st.session_state of a new session
NoSession == [page |-> 0, theme |-> "none"]

NoFooter == [page |-> 0, total_pages |-> 0, first |-> 0, last |-> 0, count |-> 0]

\* nothing rendered: no message box, no sidebar, nothing of the pagination
NoView == [message |-> "none", sidebar |-> FALSE,
           total_pages |-> 0, page |-> 0, start |-> 0, cards |-> <<>>,
           footer |-> NoFooter]

NoCache == [valid |-> FALSE, at |-> 0,
            value |-> [df |-> EmptyFrame, parquet_filename |-> "None"]]

---------------------------------------------------------------------------
(* load_data and filter_data applied to drawn inputs *)

InitCall(Snapshots) ==
    /\ \E table \in Snapshots : bucket = <<ParquetFile(table)>>
    /\ outage = NoOutage
    /\ quicksort \in {"keeps_ties", "swaps_ties"}
    /\ now = 0
    /\ cache = NoCache
    /\ io = [at |-> 0, ops |-> {}]
    /\ df = EmptyFrame
    /\ pc = "start"
    /\ widgets = NoWidgets
    /\ args = NoArgs
    /\ filtered = EmptyFrame
    /\ session = NoSession
    /\ page_input = 0
    /\ view = NoView

\* lines 151-189 with the sort done in place on the caller's frame
input_sorted_in_place(frame, result) == [frame EXCEPT !.rows = result.rows]

\* the frame the caller holds after filter_data(frame, ...) returned result:
\* lines 151-189 only read df; df.loc[mask], sort_values (no inplace=True)
\* and reset_index return new frames
input_after_filter_data(frame, result) == frame

\* line 817, uncached: df, parquet_filename = load_data()
CallLoadData ==
    /\ pc = "start"
    /\ IF load_data_outcome(bucket, outage).raised
       THEN df' = df /\ pc' = "load_error"
       ELSE df' = load_data_outcome(bucket, outage).value.df /\ pc' = "loaded"
    /\ UNCHANGED <<bucket, outage, now, cache, io, widgets, args, filtered, quicksort,
                   session, page_input, view>>

\* line 885: filtered = filter_data(df, search, language, sort_by, date_range)
\* on a frame that passed the df.empty test of line 819, with the language
\* and date range the sidebar offers for that frame
CallFilterData(Searches, Sorts) ==
    /\ pc = "loaded"
    /\ ~empty(df)
    /\ \E search \in Searches, language \in languages(df), sort_by \in Sorts,
          date_range \in date_ranges(df) :
          /\ args' = [search |-> search, language |-> language,
                      sort_by |-> sort_by, date_range |-> date_range]
          /\ filtered' = filter_data(df, search, language, sort_by, date_range)
          /\ df' = input_after_filter_data(
                      df, filter_data(df, search, language, sort_by, date_range))
    /\ pc' = "filtered"
    /\ UNCHANGED <<bucket, outage, now, cache, io, widgets, quicksort, session,
                   page_input, view>>

\* filter_data called once more on the frame the caller holds; "repeated"
\* when the arguments are those of the call before
CallFilterDataAgain(Searches, Sorts) ==
    /\ pc \in {"filtered", "repeated"}
    /\ \E search \in Searches, language \in languages(df), sort_by \in Sorts,
          date_range \in date_ranges(df) :
          /\ args' = [search |-> search, language |-> language,
                      sort_by |-> sort_by, date_range |-> date_range]
          /\ filtered' = filter_data(df, search, language, sort_by, date_range)
          /\ df' = input_after_filter_data(
                      df, filter_data(df, search, language, sort_by, date_range))
    /\ pc' = IF args' = args THEN "repeated" ELSE "filtered"
    /\ UNCHANGED <<bucket, outage, now, cache, io, widgets, quicksort, session,
                   page_input, view>>

---------------------------------------------------------------------------
(* SpecSearch: the text search of filter_data *)

\* characters of a search text
MaxSearchLen == 3

Alphabet == {"a", "b", "A", " "}

SearchTexts == SeqsUpTo(Alphabet, MaxSearchLen)

SearchRows ==
    {[BaseRow EXCEPT !["title"] = t, !["keywords"] = k] :
        t \in {NoneText, Str(<<"A", "b">>), Str(<<"b", " ", "a">>)},
        k \in {NoneText, List(<< <<"a">>, <<"B">> >>)}}

SearchCols3 == {"id", "title", "keywords"}

InitSearch == InitCall(Tables(SearchCols3, SearchRows))

NextSearch == CallLoadData \/ CallFilterData(SearchTexts, {"Stars (Total)"})

SpecSearch == InitSearch /\ [][NextSearch]_vars

\* The rows of df that filter_data returned
Kept(i) == \E k \in 1..Len(filtered.rows) : filtered.rows[k] = df.rows[i]

\* w occurs in text as consecutive characters
Occurs(w, text) ==
    \E at \in 0..Len(text) :
        \A k \in 1..Len(w) : at + k <= Len(text) /\ text[at + k] = w[k]

\* the maximal runs of non-blank characters of text
WordsOf(text) ==
    {SubSeq(text, i, j) : <<i, j>> \in
        {p \in (1..Len(text)) \X (1..Len(text)) :
            /\ p[1] <= p[2]
            /\ \A k \in p[1]..p[2] : text[k] # " "
            /\ p[1] = 1 \/ text[p[1] - 1] = " "
            /\ p[2] = Len(text) \/ text[p[2] + 1] = " "}}

\* C1: with language "All" and no date range, filter_data returns a record
\* iff every lowercased whitespace-separated word of the search text occurs
\* in the record's _search; a blank search text keeps every record.
C1_SearchSoundAndComplete ==
    (pc = "filtered" /\ args.language = "All" /\ args.date_range = <<>>) =>
        /\ \A i \in 1..Len(df.rows) :
              Kept(i) <=> \A w \in WordsOf(lower(args.search)) :
                              Occurs(w, df.rows[i]["_search"])
        /\ (\A k \in 1..Len(args.search) : args.search[k] = " ")
              => Len(filtered.rows) = Len(df.rows)

\* a two-word search with an upper-case letter keeps one row and drops one
C1_Witness ==
    /\ pc = "filtered" /\ args.language = "All" /\ args.date_range = <<>>
    /\ args.search = <<"A", " ", "b">>
    /\ Len(df.rows) = 2 /\ Len(filtered.rows) = 1

---------------------------------------------------------------------------
(* SpecSort: the sort of filter_data *)

\* the nine names of sort_map and one that is not among them
SortNames == DOMAIN sort_map \cup {"Citations"}

StarRows ==
    {[BaseRow EXCEPT !["stars"] = a, !["stars_total"] = b] :
        a \in {Num(0), Num(2)}, b \in {Num(1), Num(3)}}

CountRows(c) == {[BaseRow EXCEPT ![c] = a] : a \in {NoneNum, Num(1), Num(2)}}

TimeRows(c) ==
    {[BaseRow EXCEPT ![c] = a] : a \in {NoneTime, Time(0), Time(1), Time(DayLen)}}

SortSnapshots ==
    Tables({"id", "stars", "stars_total"}, StarRows)
        \cup UNION {Tables({"id", c}, CountRows(c)) :
                      c \in {"stars_last_7d", "stars_last_30d", "forks", "watchers"}}
        \cup UNION {Tables({"id", c}, TimeRows(c)) : c \in {"created", "repo_updated_at"}}

InitSort == InitCall(SortSnapshots)

NextSort == CallLoadData \/ CallFilterData({<<>>}, SortNames)

SpecSort == InitSort /\ [][NextSort]_vars

\* the table of the specification: name -> field
SpecField(name) ==
    CASE name = "Stars (Total)" -> "_effective_stars"
      [] name = "Stars (7 days)" -> "stars_last_7d"
      [] name = "Stars (30 days)" -> "stars_last_30d"
      [] name \in {"Newest First", "Oldest First"} -> "created"
      [] name = "Forks" -> "forks"
      [] name = "Watchers" -> "watchers"
      [] name \in {"Repo Updated (Recent)", "Repo Updated (Oldest)"} -> "repo_updated_at"

\* the table of the specification: the names that sort ascending
SpecAscending(name) == name \in {"Oldest First", "Repo Updated (Oldest)"}

NineNames == {"Stars (Total)", "Stars (7 days)", "Stars (30 days)", "Newest First",
              "Oldest First", "Forks", "Watchers", "Repo Updated (Recent)",
              "Repo Updated (Oldest)"}

IsNull(field, row) == field \in DateCols /\ row[field] = NaT

\* C2: for each of the nine sort keys the returned rows are non-increasing
\* (descending keys) or non-decreasing (ascending keys) on the mapped field
\* over the non-null rows, and every row with a null sort field comes after
\* every row with a non-null one.
C2_SortedNullsLast ==
    (pc = "filtered" /\ args.sort_by \in NineNames
        /\ SpecField(args.sort_by) \in filtered.columns) =>
        LET f == SpecField(args.sort_by)
            rows == filtered.rows
        IN  \A i \in 1..Len(rows), j \in 1..Len(rows) :
                i < j =>
                    /\ ~(IsNull(f, rows[i]) /\ ~IsNull(f, rows[j]))
                    /\ (~IsNull(f, rows[i]) /\ ~IsNull(f, rows[j])) =>
                          IF SpecAscending(args.sort_by)
                          THEN rows[i][f] <= rows[j][f]
                          ELSE rows[i][f] >= rows[j][f]

\* a descending date sort that moved a later row up and left a null last
C2_Witness ==
    /\ pc = "filtered" /\ args.sort_by = "Newest First"
    /\ "created" \in filtered.columns
    /\ Len(filtered.rows) = 2
    /\ \E i \in 1..2 : filtered.rows[i]["created"] = NaT
    /\ filtered.rows[1]["id"] = 2

\* C3: rows with equal values of the sort field (two nulls included) come
\* out in the order they have in the loaded snapshot.
C3_StableSort ==
    (pc = "filtered" /\ sort_map_get(args.sort_by)[1] \in filtered.columns) =>
        LET f == sort_map_get(args.sort_by)[1]
            rows == filtered.rows
        IN  \A i \in 1..Len(rows), j \in 1..Len(rows) :
                (i < j /\ rows[i][f] = rows[j][f]) => rows[i]["id"] < rows[j]["id"]

\* C8: each of the nine names sorts by the field and direction of the
\* specification's table, and any other name gives the output of
\* "Stars (Total)".
C8_SortMapAndFallback ==
    pc = "filtered" =>
        LET name == IF args.sort_by \in NineNames THEN args.sort_by ELSE "Stars (Total)"
        IN  /\ filtered.rows =
                  sort_values(df.columns,
                              select(df, args.search, args.language, args.date_range),
                              SpecField(name), SpecAscending(name))
            /\ args.sort_by \notin NineNames =>
                  filtered = filter_data(df, args.search, args.language,
                                         "Stars (Total)", args.date_range)

\* an unknown sort name that moved the row with more effective stars up
C8_Witness ==
    /\ pc = "filtered" /\ args.sort_by \notin NineNames
    /\ Len(filtered.rows) = 2
    /\ filtered.rows[1]["id"] = 2
    /\ filtered.rows[1]["_effective_stars"] > filtered.rows[2]["_effective_stars"]

---------------------------------------------------------------------------
(* SpecLanguage: the language filter of filter_data *)

LanguageRows ==
    {[BaseRow EXCEPT !["language"] = a] :
        a \in {NoneLang, Lang(""), Lang("Go"), Lang("go")}}

InitLanguage ==
    InitCall(Tables({"id", "language"}, LanguageRows) \cup Tables({"id"}, {BaseRow}))

NextLanguage == CallLoadData \/ CallFilterData({<<>>}, {"Stars (Total)"})

SpecLanguage == InitLanguage /\ [][NextLanguage]_vars

HasLanguage(row) == "language" \in DOMAIN row /\ row["language"].k # "none"

\* C7: a language other than "All" keeps exactly the rows whose language is
\* that very string and drops every row without a language; "All" drops no
\* row.
C7_LanguageExact ==
    (pc = "filtered" /\ args.search = <<>> /\ args.date_range = <<>>) =>
        \A i \in 1..Len(df.rows) :
            Kept(i) <=>
                \/ args.language = "All"
                \/ HasLanguage(df.rows[i]) /\ df.rows[i]["language"].s = args.language

---------------------------------------------------------------------------
(* SpecDate: the date filter of filter_data *)

CreatedRows ==
    {[BaseRow EXCEPT !["created"] = a] :
        a \in {NoneTime, BadTime, Time(0), Time(1), Time(DayLen),
               Time(MaxDay * DayLen + 1)}}

InitDate == InitCall(Tables({"id", "created"}, CreatedRows))

NextDate == CallLoadData \/ CallFilterData({<<>>}, {"Stars (Total)", "Oldest First"})

SpecDate == InitDate /\ [][NextDate]_vars

\* C6: an active range [start, end] keeps exactly the rows whose created
\* instant lies on a day from start to end, both included, whatever the time
\* of day, and drops the rows without created; without a range the date
\* step drops nothing.
C6_DateRangeInclusive ==
    (pc = "filtered" /\ args.search = <<>> /\ args.language = "All") =>
        \A i \in 1..Len(df.rows) :
            LET t == df.rows[i]["created"]
            IN  Kept(i) <=>
                    \/ args.date_range = <<>>
                    \/ /\ t # NaT
                       /\ args.date_range[1] * DayLen <= t
                       /\ t < (args.date_range[2] + 1) * DayLen

\* a range ending on the last day keeps a row created later on that day and
\* drops a row without created
C6_Witness ==
    /\ pc = "filtered" /\ args.date_range # <<>>
    /\ Len(df.rows) = 2 /\ Len(filtered.rows) = 1
    /\ filtered.rows[1]["created"] = args.date_range[2] * DayLen + 1
    /\ \E i \in 1..2 : df.rows[i]["created"] = NaT

---------------------------------------------------------------------------
(* SpecLoad: the normalisation of load_data *)

LoadRows ==
    {[BaseRow EXCEPT !["stars"] = a, !["stars_total"] = b] :
        a \in {NoneNum, BadNum, Num(-1), Num(2)},
        b \in {NoneNum, BadNum, Num(-1), Num(3), InfNum}}

InitLoad ==
    InitCall(UNION {Tables({"id"} \cup cols, LoadRows) :
                      cols \in SUBSET {"stars", "stars_total"}})

NextLoad == CallLoadData \/ CallFilterData({<<>>}, {"Stars (Total)"})

SpecLoad == InitLoad /\ [][NextLoad]_vars

\* the integer of a numeric column, 0 where the column does not exist
Field(row, c) == IF c \in DOMAIN row THEN row[c] ELSE 0

\* C5: _effective_stars is stars where stars > 0 and stars_total otherwise,
\* 0 where neither column exists, and never negative.
C5_EffectiveStars ==
    pc = "loaded" =>
        \A i \in 1..Len(df.rows) :
            LET row == df.rows[i]
            IN  /\ row["_effective_stars"] =
                      IF Field(row, "stars") > 0 THEN Field(row, "stars")
                      ELSE Field(row, "stars_total")
                /\ row["_effective_stars"] >= 0

\* the cell of the snapshot that row i, column c was read from
RawCell(i, c) == bucket[1].content.rows[i][c]

\* C14: the load never fails on a raw value, and after it every numeric
\* column of every row holds a non-negative integer, 0 where the raw value
\* was missing or not a number.
C14_NumericFields ==
    /\ pc # "load_error"
    /\ pc = "loaded" =>
          \A i \in 1..Len(df.rows) :
              \A c \in NumCols \cap df.columns :
                  /\ df.rows[i][c] \in Nat
                  /\ RawCell(i, c).k \in {"none", "bad"} => df.rows[i][c] = 0

---------------------------------------------------------------------------
(* SpecRepeat: filter_data called again and again on one loaded frame *)

RepeatRows ==
    {[BaseRow EXCEPT !["language"] = a, !["stars"] = b] :
        a \in {Lang("Go"), Lang("Rust")}, b \in {Num(1), Num(2)}}

InitRepeat == InitCall(Tables({"id", "language", "stars"}, RepeatRows))

RepeatSorts == {"Stars (Total)", "Forks"}

NextRepeat ==
    \/ CallLoadData
    \/ CallFilterData({<<>>}, RepeatSorts)
    \/ CallFilterDataAgain({<<>>}, RepeatSorts)

SpecRepeat == InitRepeat /\ [][NextRepeat]_vars

---------------------------------------------------------------------------
(* The script run, lines 816-1025 *)

\* line 63 without the decorator: load_data runs on every call
cache_hit_never(entry, t) == FALSE

\* line 63, st.cache_data(ttl=CACHE_TTL): an entry is served while it is
\* younger than the time-to-live
cache_hit(entry, t) == entry.valid /\ t - entry.at < CACHE_TTL

\* the storage operations of one execution of load_data: fs.ls (line 45),
\* fs.info per parquet file (line 51), conn.read of the latest (line 78)
storage_ops(files, failing) ==
    {"ls"} \cup (IF ~failing.ls /\ \E i \in 1..Len(files) : files[i].parquet
                 THEN {"info"} ELSE {})
           \cup (IF ~failing.ls /\ list_parquet_files(info_returned(files, failing)) # <<>>
                 THEN {"read"} ELSE {})

\* line 858: the selectbox returns the value it holds, the first option if
\* that value is no longer offered
selected_language(frame, w) ==
    IF w.language \in languages(frame) THEN w.language ELSE "All"

\* line 871-874: (default_start, date_max)
default_range(frame) == <<Max2(date_min(frame), MaxDay - 60), MaxDay>>

\* the value the date widget holds: its default when untouched or when the
\* held range is no longer offered
held_date_input(frame, w) ==
    IF created_dates(frame) = {} THEN <<>>
    ELSE IF Len(w.date_input) = 1 /\ w.date_input[1] \in date_min(frame)..MaxDay
         THEN w.date_input
    ELSE IF Len(w.date_input) = 2 /\ w.date_input \in date_ranges(frame)
         THEN w.date_input
    ELSE <<>>

\* lines 868-881: the date_range handed to filter_data
selected_date_range(frame, w) ==
    IF created_dates(frame) = {} THEN <<>>
    ELSE IF held_date_input(frame, w) = <<>> THEN default_range(frame)
    ELSE IF Len(held_date_input(frame, w)) = 2 THEN held_date_input(frame, w)
    ELSE <<>>

\* line 896 with a floor in place of math.ceil
total_pages_floor(n) == Max2(1, n \div page_size)

\* line 896: max(1, math.ceil(len(filtered) / page_size))
total_pages(n) ==
    Max2(1, IF n % page_size = 0 THEN n \div page_size ELSE n \div page_size + 1)

\* line 903: DataFrame.iloc[a:b] for 0 <= a <= b
iloc(rows, a, b) == SubSeq(rows, Min2(a, Len(rows)) + 1, Min2(b, Len(rows)))

\* lines 831-836 with the two themes exchanged
theme_of_swapped(toggle) == IF toggle THEN "dark" ELSE "light"

\* lines 831-836: the theme a toggle position stands for
theme_of(toggle) == IF toggle THEN "light" ELSE "dark"

\* lines 827-830: st.toggle(value=...) returns the position it holds if it
\* is the widget of the last run, drawn with the same value=, and value
\* otherwise
toggle_returned(held, value) == IF held.value = value THEN held.on ELSE value

\* One execution of the script with the sidebar widgets holding w, after the
\* user typed the page number typed into the page widget (0: did not).
\*   lines 816-821  load_data() behind the cache; it raises: the run ends and
\*                  nothing is cached; no data: st.error, st.stop
\*   lines 192-194  the theme of a new session is "light"
\*   lines 827-837  the theme toggle; st.rerun() ends the run, and another
\*                  run is scheduled.  Whether the widgets below the toggle
\*                  keep their values over st.rerun() depends on the
\*                  Streamlit version: either outcome is possible
\*   lines 851-885  sidebar and filter_data
\*   lines 889-891  no match: st.info, st.stop
\* view.message is the box shown: "error" for st.error, "info" for st.info,
\* "exception" for the trace of an uncaught exception
\*   lines 894-903  pagination with st.session_state.page
\*   lines 997-1001 the cards of page_df
\*   lines 1009-1017 number_input(min_value=1, max_value=total_pages,
\*                  value=st.session_state.page): it raises when value exceeds
\*                  max_value; it returns what the user typed if the widget
\*                  is the one of the last run, else value
\*   lines 1021-1025 the footer
Run(w, typed) ==
    LET hit == cache_hit(cache, now)
        outcome == load_data_outcome(bucket, outage)
        raised == ~hit /\ outcome.raised
        loaded == IF hit THEN cache.value ELSE outcome.value
        frame == loaded.df
        language == selected_language(frame, w)
        date_range == selected_date_range(frame, w)
        result == filter_data(frame, w.search, language, w.sort_by, date_range)
        n == Len(result.rows)
        pages == total_pages(n)
        theme == IF session.theme = "none" THEN "light" ELSE session.theme
        state == [session EXCEPT !.theme = theme]
        theme_toggle == toggle_returned(w.theme_toggle, theme = "light")
        rerun == theme # theme_of(theme_toggle)
        drawn == [value |-> (theme = "light"), on |-> theme_toggle]
        page == IF session.page = 0 THEN 1 ELSE session.page
        start == (page - 1) * page_size
        page_df == iloc(result.rows, start, start + page_size)
        cards == [i \in 1..Len(page_df) |-> page_df[i]["id"]]
        returned == IF typed # 0 /\ pages = view.total_pages THEN typed ELSE page
    IN  /\ cache' = IF hit \/ raised THEN cache
                    ELSE [valid |-> TRUE, at |-> now, value |-> loaded]
        /\ io' = [at |-> now,
                  ops |-> IF hit THEN {} ELSE storage_ops(bucket, outage)]
        /\ df' = frame
        /\ page_input' = IF /\ ~raised /\ ~empty(frame) /\ ~rerun
                            /\ n # 0 /\ page <= pages
                         THEN returned ELSE 0
        /\ IF raised
           THEN /\ pc' = "load_error"
                /\ widgets' = NoWidgets
                /\ args' = NoArgs
                /\ filtered' = EmptyFrame
                /\ view' = [NoView EXCEPT !.message = "exception"]
                /\ session' = state
           ELSE IF empty(frame)
           THEN /\ pc' = "no_data"
                /\ widgets' = NoWidgets
                /\ args' = NoArgs
                /\ filtered' = EmptyFrame
                /\ view' = [NoView EXCEPT !.message = "error"]
                /\ session' = state
           ELSE IF rerun
           THEN /\ pc' = "rerun"
                /\ widgets' \in {[w EXCEPT !.theme_toggle = drawn],
                                 [NoWidgets EXCEPT !.theme_toggle = drawn]}
                /\ args' = NoArgs
                /\ filtered' = EmptyFrame
                /\ view' = [NoView EXCEPT !.sidebar = TRUE]
                /\ session' = [state EXCEPT !.theme = theme_of(theme_toggle)]
           ELSE /\ widgets' = [w EXCEPT !.theme_toggle = drawn,
                                        !.language = language,
                                        !.date_input = held_date_input(frame, w)]
                /\ args' = [search |-> w.search, language |-> language,
                            sort_by |-> w.sort_by, date_range |-> date_range]
                /\ filtered' = result
                /\ IF n = 0
                   THEN /\ pc' = "no_match"
                        /\ view' = [NoView EXCEPT !.message = "info",
                                                  !.sidebar = TRUE]
                        /\ session' = state
                   ELSE IF page > pages
                   THEN /\ pc' = "exception"
                        /\ view' = [message |-> "exception", sidebar |-> TRUE,
                                    total_pages |-> pages, page |-> page,
                                    start |-> start, cards |-> cards,
                                    footer |-> NoFooter]
                        /\ session' = [state EXCEPT !.page = page]
                   ELSE /\ pc' = "rendered"
                        /\ view' = [message |-> "none", sidebar |-> TRUE,
                                    total_pages |-> pages, page |-> page,
                                    start |-> start, cards |-> cards,
                                    footer |-> [page |-> returned,
                                                total_pages |-> pages,
                                                first |-> start + 1,
                                                last |-> Min2(start + page_size, n),
                                                count |-> n]]
                        /\ session' = [state EXCEPT !.page = returned]
        /\ UNCHANGED <<bucket, outage, now, quicksort>>

InitApp(Buckets) ==
    /\ bucket \in Buckets
    /\ outage = NoOutage
    /\ quicksort \in {"keeps_ties", "swaps_ties"}
    /\ now = 0
    /\ cache = NoCache
    /\ io = [at |-> 0, ops |-> {}]
    /\ df = EmptyFrame
    /\ pc = "start"
    /\ widgets = NoWidgets
    /\ args = NoArgs
    /\ filtered = EmptyFrame
    /\ session = NoSession
    /\ page_input = 0
    /\ view = NoView

\* the sidebar was drawn by the last run
SidebarShown == pc \in {"no_match", "exception", "rendered"}

\* the page is opened, an interaction that changes none of the widgets
\* below re-runs the script, or the run that st.rerun() scheduled starts
Rerun == Run(widgets, 0)

\* line 827: the user flips the theme toggle
ToggleTheme ==
    /\ SidebarShown
    /\ Run([widgets EXCEPT !.theme_toggle.on = ~@], 0)

\* line 851: the user types a search text
ChangeSearch(Searches) ==
    /\ SidebarShown
    /\ \E search \in Searches \ {widgets.search} :
          Run([widgets EXCEPT !.search = search], 0)

\* line 858: the user selects a language
ChangeLanguage ==
    /\ SidebarShown
    /\ \E language \in languages(df) \ {widgets.language} :
          Run([widgets EXCEPT !.language = language], 0)

\* line 861: the user selects a sort order
ChangeSort(Sorts) ==
    /\ SidebarShown
    /\ \E sort_by \in (Sorts \cap sort_options) \ {widgets.sort_by} :
          Run([widgets EXCEPT !.sort_by = sort_by], 0)

\* line 872: the user picks one date, or a start and an end
ChangeDate ==
    /\ SidebarShown
    /\ created_dates(df) # {}
    /\ \E picked \in ((date_ranges(df) \ {<<>>})
                        \cup {<<a>> : a \in date_min(df)..MaxDay}) \ {widgets.date_input} :
          Run([widgets EXCEPT !.date_input = picked], 0)

\* line 1009: the user types a page number the widget accepts
ChangePage ==
    /\ pc = "rendered"
    /\ \E typed \in (1..view.total_pages) \ {session.page} :
          Run(widgets, typed)

---------------------------------------------------------------------------
(* SpecPage: pagination over the interactions of one session *)

PageRow(i) ==
    [BaseRow EXCEPT !["title"] = IF i % 2 = 0 THEN Str(<<"a">>) ELSE Str(<<"b">>),
                    !["language"] = IF i <= 10 THEN Lang("Go") ELSE Lang("Rust"),
                    !["stars"] = Num(i % 3)]

\* row counts around the page boundaries, up to two full pages and one row
PageCounts ==
    UNION {{k * page_size - 1, k * page_size, k * page_size + 1} : k \in 0..2}
        \ {-1}

PageTables ==
    {Table({"id", "title", "language", "stars"}, Tuple([i \in 1..n |-> PageRow(i)])) :
        n \in PageCounts \cup {11}}

PageSearches == {<<>>, <<"A">>, <<"a", "b">>}

InitPage == InitApp({<<ParquetFile(table)>> : table \in PageTables})

NextPage ==
    \/ Rerun
    \/ ChangeSearch(PageSearches)
    \/ ChangeLanguage
    \/ ChangePage

SpecPage == InitPage /\ [][NextPage]_vars

\* the ids of rows a+1 .. b of the filtered sequence, b cut to its length
SliceIds(a, b) ==
    [i \in 1..(Min2(b, Len(filtered.rows)) - Min2(a, Len(filtered.rows))) |->
        filtered.rows[Min2(a, Len(filtered.rows)) + i]["id"]]

\* C4: the page that slices the cards of a render lies in [1, total_pages]
\* of the current result, the cards are the slice [(page-1)*48, page*48) of
\* the filtered sequence, and a non-empty result renders no empty page.
C4_PageClamped ==
    pc \in {"rendered", "exception"} =>
        /\ view.page \in 1..view.total_pages
        /\ view.cards = SliceIds((view.page - 1) * 48, view.page * 48)
        /\ filtered.rows # <<>> => view.cards # <<>>

RECURSIVE SumSizes(_, _)
SumSizes(n, p) ==
    IF p = 0 THEN 0
    ELSE Len(iloc([i \in 1..n |-> i], (p - 1) * page_size, p * page_size))
            + SumSizes(n, p - 1)

\* C9: for the filtered count n, total_pages is max(1, ceil(n/48)), the
\* sizes of the slices of pages 1..total_pages add up to n, every page
\* before the last holds 48 entries and the last holds
\* n - (total_pages - 1) * 48.
C9_PageSizes ==
    pc \in {"no_match", "exception", "rendered"} =>
        LET n == Len(filtered.rows)
            pages == total_pages(n)
            size(p) == Len(iloc(filtered.rows, (p - 1) * page_size, p * page_size))
        IN  /\ pages >= 1 /\ pages * 48 >= n
            /\ pages > 1 => (pages - 1) * 48 < n
            /\ pc # "no_match" => view.total_pages = pages
            /\ SumSizes(n, pages) = n
            /\ \A p \in 1..(pages - 1) : size(p) = 48
            /\ size(pages) = n - (pages - 1) * 48

\* a result of two full pages and one more row
C9_Witness ==
    /\ pc = "rendered"
    /\ Len(filtered.rows) = 2 * 48 + 1
    /\ view.total_pages = 3

\* C15: in a run that reaches the footer, the page number p the footer
\* shows is the page of the cards of that run: the slice starts at
\* (p - 1) * 48 and the footer shows the range (p - 1) * 48 + 1 to
\* min(p * 48, count).
C15_FooterMatchesCards ==
    pc = "rendered" =>
        /\ view.footer.page = page_input
        /\ view.start = (view.footer.page - 1) * 48
        /\ view.cards = SliceIds((view.footer.page - 1) * 48, view.footer.page * 48)
        /\ view.footer.first = (view.footer.page - 1) * 48 + 1
        /\ view.footer.last = Min2(view.footer.page * 48, view.footer.count)
        /\ view.footer.count = Len(filtered.rows)

---------------------------------------------------------------------------
(* SpecCache: the cache of load_data over time and changes of the bucket *)

\* advances of the clock
MaxTicks == 2

\* files in the bucket
MaxFiles == 2

CacheTable(stars) ==
    Table({"id", "stars"}, <<[BaseRow EXCEPT !["stars"] = Num(stars)]>>)

CacheFiles ==
    {[name |-> "2024010100.parquet", parquet |-> TRUE, has_updated |-> TRUE,
      updated |-> 1, timeCreated |-> 1, content |-> CacheTable(1)],
     [name |-> "2024010200.parquet", parquet |-> TRUE, has_updated |-> TRUE,
      updated |-> 2, timeCreated |-> 2, content |-> CacheTable(2)],
     [name |-> "2024010300.parquet", parquet |-> TRUE, has_updated |-> FALSE,
      updated |-> 0, timeCreated |-> 3, content |-> CacheTable(3)],
     [name |-> "2024010400.parquet", parquet |-> TRUE, has_updated |-> TRUE,
      updated |-> 0, timeCreated |-> 4, content |-> CacheTable(4)],
     [name |-> "README.md", parquet |-> FALSE, has_updated |-> TRUE,
      updated |-> 5, timeCreated |-> 5, content |-> EmptyFrame]}

\* time passes
Tick ==
    /\ \E dt \in {CACHE_TTL - 1, CACHE_TTL} :
          /\ now + dt <= MaxTicks * CACHE_TTL
          /\ now' = now + dt
    /\ UNCHANGED <<bucket, outage, cache, io, df, pc, widgets, args, filtered, quicksort,
                   session, page_input, view>>

\* the ingest job writes a file to the bucket
Upload ==
    /\ Len(bucket) < MaxFiles
    /\ \E f \in CacheFiles : bucket' = Append(bucket, f)
    /\ UNCHANGED <<outage, now, cache, io, df, pc, widgets, args, filtered, quicksort,
                   session, page_input, view>>

\* the oldest file is removed from the bucket
Prune ==
    /\ bucket # <<>>
    /\ bucket' = Tail(bucket)
    /\ UNCHANGED <<outage, now, cache, io, df, pc, widgets, args, filtered, quicksort,
                   session, page_input, view>>

InitCache == InitApp({<<>>})

NextCache == Tick \/ Upload \/ Prune \/ Rerun

SpecCache == InitCache /\ [][NextCache]_vars

\* C10: a script run less than CACHE_TTL seconds after the fetch that filled
\* the cache reuses the cached table and touches the storage not at all; a
\* run fetches only when the cache is empty or the time-to-live has passed,
\* and the table it fetched replaces the cached one as a whole.
C10_CacheWithinTTL ==
    [][Rerun =>
        IF cache.valid /\ now < cache.at + 3600
        THEN /\ io'.ops = {}
             /\ df' = cache.value.df
             /\ cache' = cache
        ELSE /\ "ls" \in io'.ops
             /\ cache' = [valid |-> TRUE, at |-> now, value |-> load_data(bucket)]
             /\ df' = load_data(bucket).df]_vars

\* a run in the last second of the time-to-live served the cached table
\* although the bucket holds another one by then
C10_Witness ==
    /\ pc = "rendered"
    /\ io = [at |-> now, ops |-> {}]
    /\ cache.valid /\ now = cache.at + 3600 - 1
    /\ df = cache.value.df
    /\ df # load_data(bucket).df

---------------------------------------------------------------------------
(* SpecOutage: script runs against a storage whose operations may fail *)

OutageFiles == {f \in CacheFiles : f.parquet /\ f.has_updated /\ f.updated > 0}

OutageBuckets ==
    {files \in SeqsUpTo(OutageFiles, MaxFiles) :
        /\ files # <<>>
        /\ \A i, j \in 1..Len(files) : i < j => files[i].updated < files[j].updated}

Outages ==
    [ls : BOOLEAN, info : SUBSET {f.name : f \in OutageFiles}, read : BOOLEAN]

\* storage operations start to fail (auth, network)
Fail ==
    /\ outage = NoOutage
    /\ outage' \in Outages \ {NoOutage}
    /\ UNCHANGED <<bucket, now, cache, io, df, pc, widgets, args, filtered,
                   quicksort, session, page_input, view>>

\* the storage works again
Recover ==
    /\ outage # NoOutage
    /\ outage' = NoOutage
    /\ UNCHANGED <<bucket, now, cache, io, df, pc, widgets, args, filtered,
                   quicksort, session, page_input, view>>

InitOutage == InitApp(OutageBuckets)

NextOutage == Fail \/ Recover \/ Tick \/ Rerun

SpecOutage == InitOutage /\ [][NextOutage]_vars

\* a storage operation that a load at present performs raises
AccessFails ==
    \/ outage.ls
    \/ \E i \in 1..Len(bucket) : bucket[i].parquet /\ bucket[i].name \in outage.info
    \/ outage.read /\ list_parquet_files(bucket) # <<>>

\* C12: a load during which a storage access fails (the listing, the
\* metadata of a file, the read of the snapshot) ends with an error; it
\* neither renders a table nor shows the "no data found" state, and it
\* leaves nothing in the cache.
C12_FailurePropagates ==
    [][(Rerun /\ ~cache_hit(cache, now) /\ AccessFails) =>
          (pc' = "load_error" /\ cache' = cache)]_vars

---------------------------------------------------------------------------
(* SpecEmpty: script runs that end in an empty state *)

EmptyRows ==
    {[BaseRow EXCEPT !["title"] = Str(<<"a">>), !["language"] = Lang("Go"),
                     !["created"] = Time(0)],
     [BaseRow EXCEPT !["title"] = Str(<<"b">>)],
     [BaseRow EXCEPT !["title"] = Str(<<"b">>), !["language"] = Lang("Rust"),
                     !["created"] = Time(DayLen)]}

EmptyBuckets ==
    {<<>>} \cup {<<ParquetFile(table)>> :
                    table \in Tables({"id", "title", "language", "created"}, EmptyRows)}

EmptySearches == {<<>>, <<"a">>, <<"a", " ", "b">>}

InitEmpty == InitApp(EmptyBuckets)

NextEmpty ==
    \/ Rerun
    \/ ChangeSearch(EmptySearches)
    \/ ChangeLanguage
    \/ ChangeSort({"Stars (Total)", "Oldest First"})
    \/ ChangeDate

SpecEmpty == InitEmpty /\ [][NextEmpty]_vars

\* the last run drew cards, the page input or the footer
PaginationDrawn ==
    view.cards # <<>> \/ page_input # 0 \/ view.footer # NoFooter
        \/ view.total_pages # 0

\* C13: cards, page input and footer are drawn only for a loaded table and
\* a filtered result that both hold rows; a run without snapshot rows shows
\* an error box and ends before the sidebar and the filter; a run whose
\* filter keeps no row shows an info box and ends before the pagination.
C13_EmptyStates ==
    pc \in {"no_data", "no_match", "exception", "rendered"} =>
        /\ PaginationDrawn => df.rows # <<>> /\ filtered.rows # <<>>
        /\ df.rows = <<>> =>
              /\ pc = "no_data" /\ view.message = "error"
              /\ ~view.sidebar /\ args = NoArgs /\ ~PaginationDrawn
        /\ (df.rows # <<>> /\ filtered.rows = <<>>) =>
              /\ pc = "no_match" /\ view.message = "info"
              /\ view.sidebar /\ ~PaginationDrawn
        /\ view.message = "error" => df.rows = <<>>
        /\ view.message = "info" => filtered.rows = <<>>

\* a search that no row of a loaded table matches
C13_Witness ==
    /\ pc = "no_match"
    /\ df.rows # <<>>
    /\ args.search # <<>>
    /\ view.message = "info"

---------------------------------------------------------------------------
(* SpecTheme: the theme toggle and the reruns it requests *)

InitTheme == InitApp(EmptyBuckets)

NextTheme ==
    \/ Rerun
    \/ ToggleTheme
    \/ ChangeSearch(EmptySearches)

SpecTheme == InitTheme /\ [][NextTheme]_vars

\* the theme the position of the toggle asks for
Asked(w) == IF w.theme_toggle.on THEN "light" ELSE "dark"

\* the theme a run finds stored, "light" in a new session
Stored == IF session.theme = "none" THEN "light" ELSE session.theme

\* C16: the stored theme is "light" or "dark"; a run requests a rerun only
\* if the stored theme differs from the position of the toggle, and it has
\* stored the theme of that position by then; the run that follows a
\* request requests none, and a run that draws the sidebar without a
\* request ends with the stored theme that of the toggle.
C16_ThemeRerun ==
    [][/\ session'.theme \in {"light", "dark"}
       /\ pc' = "rerun" => Stored # Asked(widgets') /\ session'.theme = Asked(widgets')
       /\ pc = "rerun" => pc' # "rerun" /\ session'.theme = session.theme
       /\ view'.sidebar => session'.theme = Asked(widgets')
       /\ (view'.sidebar /\ pc' # "rerun") => Stored = Asked(widgets')]_vars

\* the run after a request: the dark theme is in place and the sidebar is
\* drawn
C16_Witness ==
    /\ pc \in {"rendered", "no_match"}
    /\ session.theme = "dark"
    /\ ~widgets.theme_toggle.on
    /\ widgets.search # <<>>

=============================================================================
